---- MODULE Spec2Model ----
(***************************************************************************)
(* The "station" subcommand of weectl (bin/weectl/parse_station.py): the   *)
(* argparse tree built by add_subparser and _add_common_args, the two      *)
(* handlers create_station and reconfigure_station, and the configuration  *)
(* engine they call.  The engine (weecfg.station_config) and the           *)
(* dispatcher (weectl.main) are not part of parse_station.py; they are     *)
(* modelled from the design document.                                      *)
(*                                                                         *)
(* One behaviour is one command invocation: a command line is parsed, the  *)
(* handler bound to the action (if any) is called, the handler calls the   *)
(* engine once, and the process ends.                                      *)
(***************************************************************************)
EXTENDS Naturals, Sequences, FiniteSets

VARIABLES argv,          \* the command line: the action and the options given
          fs_before,     \* durable storage when the invocation began
          fs,            \* durable storage now
          pc,            \* where the invocation is
          namespace,     \* what parse_args returned
          engine_calls,  \* the calls made into weecfg.station_config
          call_path,     \* the path the engine operates on
          answers,       \* what the prompter obtained (register, station URL)
          tree,          \* the engine's in-memory configuration tree
          steps_run,     \* the upgrade steps executed, in order
          raised,        \* the exception in flight out of the engine
          outcome        \* how the process ended

vars == <<argv, fs_before, fs, pc, namespace, engine_calls, call_path,
          answers, tree, steps_run, raised, outcome>>

(***************************************************************************)
(* Bounds of the model.                                                    *)
(***************************************************************************)
\* At most this many options are given on one command line.
MaxArgs == 3

(***************************************************************************)
(* Python values.                                                          *)
(***************************************************************************)
None == [t |-> "None"]
Str(s) == [t |-> "str", v |-> s]
Bool(b) == [t |-> "bool", b |-> b]

\* bool(s) of a str: a string is true unless it is empty.
PyBool(s) == s # ""

(***************************************************************************)
(* The command line.                                                       *)
(***************************************************************************)
Actions == {"create", "reconfigure", "upgrade", "upgrade-skins"}

\* The twelve options _add_common_args adds, by their option strings.
CommonOptions == {"--driver", "--location", "--altitude", "--latitude",
                  "--longitude", "--register", "--station-url", "--units",
                  "--skin-root", "--sqlite-root", "--html-root", "--no-prompt"}

\* Every option a command line of the model may carry.
OptionNames == {"--config"} \cup CommonOptions

\* An option that is not on the command line.
NotGiven == "<not given>"

DefaultPath == "/home/weewx/weewx.conf"
OtherPath == "/tmp/weewx.conf"
Paths == {DefaultPath, OtherPath}

\* The values the model's command lines give to each option.
OptionValues(o) ==
    CASE o = "--config"      -> {OtherPath}
      [] o = "--driver"      -> {"weewx.drivers.vantage"}
      [] o = "--location"    -> {"Home"}
      [] o = "--altitude"    -> {"750,foot", "750"}
      [] o = "--latitude"    -> {"45.0", "95.0"}
      [] o = "--longitude"   -> {"-120.0"}
      [] o = "--register"    -> {"y", "n", "maybe"}
      [] o = "--station-url" -> {"http://x.org"}
      [] o = "--units"       -> {"us", "metricwx", "metric", "si"}
      [] o = "--skin-root"   -> {"skins"}
      [] o = "--sqlite-root" -> {"archive"}
      [] o = "--html-root"   -> {"public_html"}
      [] o = "--no-prompt"   -> {"", "true", "false", "0", "n"}

\* The options a command line gives.
Given(opts) == {o \in OptionNames : opts[o] # NotGiven}

\* The option settings that give at most n options.
RECURSIVE OptsUpTo(_)
OptsUpTo(n) ==
    IF n = 0 THEN {[o \in OptionNames |-> NotGiven]}
    ELSE LET P == OptsUpTo(n - 1)
         IN  P \cup UNION {UNION {{[f EXCEPT ![o] = v] : v \in OptionValues(o)} :
                                    o \in OptionNames \ Given(f)} : f \in P}

CommandLines == [action : Actions, opts : OptsUpTo(MaxArgs)]

(***************************************************************************)
(* The parser tree of add_subparser and _add_common_args.                  *)
(***************************************************************************)
\* The actions whose parser gets --config and the common arguments.
StationActions == {"create", "reconfigure"}

\* The options the action's parser was given with add_argument.
ParserOptions(action) ==
    IF action \in StationActions THEN {"--config"} \cup CommonOptions ELSE {}

\* choices of --register.
RegisterChoices == {"y", "n"}

\* choices of --units, with one more value let through.
UnitsChoicesWide == {"us", "metricwx", "metric", "si"}
\* choices of --units.
UnitsChoices == {"us", "metricwx", "metric"}

\* Whether the value passes the option's choices, when it has any.
InChoices(o, v) ==
    CASE o = "--register" -> v \in RegisterChoices
      [] o = "--units"    -> v \in UnitsChoices
      [] OTHER            -> TRUE

\* The namespace attribute an option is stored under.
Dest(o) ==
    CASE o = "--config"      -> "config"
      [] o = "--driver"      -> "driver"
      [] o = "--location"    -> "location"
      [] o = "--altitude"    -> "altitude"
      [] o = "--latitude"    -> "latitude"
      [] o = "--longitude"   -> "longitude"
      [] o = "--register"    -> "register"
      [] o = "--station-url" -> "station_url"
      [] o = "--units"       -> "unit_system"
      [] o = "--skin-root"   -> "skin_root"
      [] o = "--sqlite-root" -> "sqlite_root"
      [] o = "--html-root"   -> "html_root"
      [] o = "--no-prompt"   -> "no_prompt"

\* The value stored for an option: None when it is not given; --no-prompt has
\* type=bool, every other option keeps its string.
Convert(o, raw) ==
    IF raw = NotGiven THEN None
    ELSE IF o = "--no-prompt" THEN Bool(PyBool(raw))
    ELSE Str(raw)

\* The actions whose parser has set_defaults(func=...), and the handler bound.
BoundActions == {"create", "reconfigure"}
Func(action) ==
    IF action = "create" THEN "create_station" ELSE "reconfigure_station"

\* parse_args accepts the command line: every option given is one the
\* action's parser knows, with a value among its choices.
ParseAccepts(a) ==
    \A o \in Given(a.opts) :
        /\ o \in ParserOptions(a.action)
        /\ InChoices(o, a.opts[o])

\* The namespace parse_args returns for an accepted command line.
ParseArgs(a) ==
    LET dests == {Dest(o) : o \in ParserOptions(a.action)}
        attrs == {"action"} \cup dests
                 \cup (IF a.action \in BoundActions THEN {"func"} ELSE {})
        opt(d) == CHOOSE o \in ParserOptions(a.action) : Dest(o) = d
    IN  [d \in attrs |->
            IF d = "action" THEN a.action
            ELSE IF d = "func" THEN Func(a.action)
            ELSE Convert(opt(d), a.opts[opt(d)])]

\* No namespace yet.
NoNamespace == [d \in {} |-> None]

(***************************************************************************)
(* Durable storage: a configuration file, or none, at each path.           *)
(***************************************************************************)
\* The engine's current schema version.
VCurrent == 2

NoFile == [exists |-> FALSE]
File(version, location) ==
    [exists |-> TRUE, version |-> version, location |-> location]

Storages == [Paths -> {NoFile} \cup {File(v, "Old") : v \in 0..VCurrent}]

NoTree == [loaded |-> FALSE]
NoError == [kind |-> "none"]
Error(kind, reason) == [kind |-> kind, reason |-> reason]
NoAnswers == [register |-> None, station_url |-> None]

Init ==
    /\ argv \in CommandLines
    /\ fs_before \in Storages
    /\ fs = fs_before
    /\ pc = "start"
    /\ namespace = NoNamespace
    /\ engine_calls = <<>>
    /\ call_path = DefaultPath
    /\ answers = NoAnswers
    /\ tree = NoTree
    /\ steps_run = <<>>
    /\ raised = NoError
    /\ outcome = "running"

(***************************************************************************)
(* parse_args, then the dispatcher.                                        *)
(***************************************************************************)
\* namespace = parser.parse_args(): argparse ends the process with status 2
\* on a command line it does not accept.
Parse ==
    /\ pc = "start"
    /\ IF ParseAccepts(argv)
       THEN /\ namespace' = ParseArgs(argv)
            /\ pc' = "parsed"
            /\ outcome' = outcome
       ELSE /\ namespace' = namespace
            /\ pc' = "done"
            /\ outcome' = "argparse_error"
    /\ UNCHANGED <<argv, fs_before, fs, engine_calls, call_path, answers,
                   tree, steps_run, raised>>

\* The dispatcher calls the handler the namespace carries.  A namespace with
\* no func attribute has no handler to call: the process ends, normally or
\* with an uncaught AttributeError, without any call into the engine.
Dispatch ==
    /\ pc = "parsed"
    /\ IF "func" \in DOMAIN namespace
       THEN /\ pc' = "handler"
            /\ outcome' = outcome
       ELSE /\ pc' = "done"
            /\ outcome' \in {"returned", "uncaught"}
    /\ UNCHANGED <<argv, fs_before, fs, namespace, engine_calls, call_path,
                   answers, tree, steps_run, raised>>

(***************************************************************************)
(* The handlers create_station and reconfigure_station.                    *)
(***************************************************************************)
\* The keyword arguments both handlers pass to the engine.
HandlerKeywords == {"config_path", "driver", "location", "altitude", "latitude",
                    "longitude", "register", "unit_system", "skin_root",
                    "sqlite_root", "html_root", "no_prompt"}

\* The namespace attribute a keyword argument is read from.
Attr(k) == IF k = "config_path" THEN "config" ELSE k

\* create_station's keyword arguments with the configuration path left out.
CreateKwargsNoConfig(ns) ==
    [k \in HandlerKeywords |-> IF k = "config_path" THEN None ELSE ns[Attr(k)]]
\* The keyword arguments of create_station's call.
CreateKwargs(ns) == [k \in HandlerKeywords |-> ns[Attr(k)]]

\* The keyword arguments of reconfigure_station's call.
ReconfigureKwargs(ns) == [k \in HandlerKeywords |-> ns[Attr(k)]]

\* The engine entry point create_station calls.
CreateEntry == "weecfg.station_config.create_station"

\* reconfigure_station calling the entry point of the handler it was copied from.
ReconfigureEntryCopied == "weecfg.station_config.create_station"
\* The engine entry point reconfigure_station calls.
ReconfigureEntry == "weecfg.station_config.reconfigure_station"

\* The exceptions the handlers' except clause names.
CaughtKinds == {"ViolatedPrecondition"}

\* How the process ends when the engine call raises: sys.exit(e) for a caught
\* exception (the message on stderr, status 1), else the exception leaves the
\* handler uncaught.
ExceptOutcome(kind) == IF kind \in CaughtKinds THEN "sys_exit" ELSE "uncaught"

\* The process's exit status.
ExitStatus(o) ==
    CASE o = "returned"       -> 0
      [] o = "sys_exit"       -> 1
      [] o = "uncaught"       -> 1
      [] o = "argparse_error" -> 2
      [] OTHER                -> 0

\* create_station(namespace): the call into the engine.
CreateStation ==
    /\ pc = "handler"
    /\ namespace["func"] = "create_station"
    /\ engine_calls' = Append(engine_calls,
                              [entry |-> CreateEntry,
                               kwargs |-> CreateKwargs(namespace)])
    /\ pc' = "engine_path"
    /\ UNCHANGED <<argv, fs_before, fs, namespace, call_path, answers, tree,
                   steps_run, raised, outcome>>

\* reconfigure_station(namespace): the call into the engine.
ReconfigureStation ==
    /\ pc = "handler"
    /\ namespace["func"] = "reconfigure_station"
    /\ engine_calls' = Append(engine_calls,
                              [entry |-> ReconfigureEntry,
                               kwargs |-> ReconfigureKwargs(namespace)])
    /\ pc' = "engine_path"
    /\ UNCHANGED <<argv, fs_before, fs, namespace, call_path, answers, tree,
                   steps_run, raised, outcome>>

\* The engine returned: the handler returns, and the process ends normally.
HandlerReturn ==
    /\ pc = "returning"
    /\ pc' = "done"
    /\ outcome' = "returned"
    /\ UNCHANGED <<argv, fs_before, fs, namespace, engine_calls, call_path,
                   answers, tree, steps_run, raised>>

\* create_station's except clause.
CreateStationExcept ==
    /\ pc = "except"
    /\ namespace["func"] = "create_station"
    /\ pc' = "done"
    /\ outcome' = ExceptOutcome(raised.kind)
    /\ UNCHANGED <<argv, fs_before, fs, namespace, engine_calls, call_path,
                   answers, tree, steps_run, raised>>

\* reconfigure_station's except clause.
ReconfigureStationExcept ==
    /\ pc = "except"
    /\ namespace["func"] = "reconfigure_station"
    /\ pc' = "done"
    /\ outcome' = ExceptOutcome(raised.kind)
    /\ UNCHANGED <<argv, fs_before, fs, namespace, engine_calls, call_path,
                   answers, tree, steps_run, raised>>

(***************************************************************************)
(* The configuration engine, from the design document: preconditions on    *)
(* the path, the prompter, the validators and the merger, the schema       *)
(* upgrader, the atomic writer.                                            *)
(***************************************************************************)
\* The call the engine is serving.
Call == engine_calls[Len(engine_calls)]

\* A parameter of the engine: what the caller passed, None by default.
Param(call, k) == IF k \in DOMAIN call.kwargs THEN call.kwargs[k] ELSE None

\* The path the engine operates on: the default path unless one is passed.
EnginePath(call) ==
    IF Param(call, "config_path") = None THEN DefaultPath
    ELSE Param(call, "config_path").v

\* Prompts are suppressed when no_prompt is true.
Prompting(call) == Param(call, "no_prompt") # Bool(TRUE)

\* The baseline defaults.
BaselineTree == [loaded |-> TRUE, version |-> VCurrent, location |-> "WeeWX"]

\* The registration flag and station URL in effect: the command line's, else
\* the prompter's, else the default (do not register, no URL).
EffectiveRegister(call, ans) ==
    IF Param(call, "register") # None THEN Param(call, "register").v
    ELSE IF ans.register # None THEN ans.register.v
    ELSE "n"
EffectiveUrl(call, ans) ==
    IF Param(call, "station_url") # None THEN Param(call, "station_url")
    ELSE ans.station_url

\* The validators: the values they accept.
ValidValue(k, v) ==
    CASE k = "altitude" -> v \in {"750,foot"}
      [] k = "latitude" -> v \in {"45.0"}
      [] OTHER          -> TRUE

\* Create must not find a file at the path; reconfigure must find one.
EngineCheckPath ==
    /\ pc = "engine_path"
    /\ LET path == EnginePath(Call)
           creating == Call.entry = "weecfg.station_config.create_station"
       IN  /\ call_path' = path
           /\ IF creating /\ fs[path].exists
              THEN /\ raised' = Error("ViolatedPrecondition", "config exists")
                   /\ pc' = "except"
                   /\ tree' = tree
              ELSE IF ~creating /\ ~fs[path].exists
              THEN /\ raised' = Error("ViolatedPrecondition", "no config")
                   /\ pc' = "except"
                   /\ tree' = tree
              ELSE /\ raised' = raised
                   /\ pc' = "engine_prompt"
                   /\ tree' = IF creating THEN BaselineTree
                              ELSE [loaded |-> TRUE,
                                    version |-> fs[path].version,
                                    location |-> fs[path].location]
    /\ UNCHANGED <<argv, fs_before, fs, namespace, engine_calls, answers,
                   steps_run, outcome>>

\* The prompter asks for what the caller did not pass, unless suppressed.
\* Registering without a station URL is a precondition violation.
EnginePrompt ==
    /\ pc = "engine_prompt"
    /\ \E r \in {None, Str("y"), Str("n")}, u \in {None, Str("http://x.org")} :
          /\ (r # None) <=> (Prompting(Call) /\ Param(Call, "register") = None)
          /\ (u # None) => /\ Prompting(Call)
                           /\ Param(Call, "station_url") = None
                           /\ EffectiveRegister(Call, [register |-> r,
                                                       station_url |-> None]) = "y"
          /\ answers' = [register |-> r, station_url |-> u]
    /\ IF /\ EffectiveRegister(Call, answers') = "y"
          /\ EffectiveUrl(Call, answers') = None
       THEN /\ raised' = Error("ViolatedPrecondition", "no station URL")
            /\ pc' = "except"
       ELSE /\ raised' = raised
            /\ pc' = "engine_validate"
    /\ UNCHANGED <<argv, fs_before, fs, namespace, engine_calls, call_path,
                   tree, steps_run, outcome>>

\* The validators check the values passed; the merger overlays them.
EngineValidate ==
    /\ pc = "engine_validate"
    /\ IF \E k \in DOMAIN Call.kwargs :
             /\ Call.kwargs[k] # None
             /\ Call.kwargs[k].t = "str"
             /\ ~ValidValue(k, Call.kwargs[k].v)
       THEN /\ raised' = Error("ValidationError", "bad value")
            /\ pc' = "except"
            /\ tree' = tree
       ELSE /\ raised' = raised
            /\ tree' = IF Param(Call, "location") = None THEN tree
                       ELSE [tree EXCEPT !.location = Param(Call, "location").v]
            /\ pc' = IF tree.version < VCurrent THEN "engine_upgrade"
                     ELSE "engine_write"
    /\ UNCHANGED <<argv, fs_before, fs, namespace, engine_calls, call_path,
                   answers, steps_run, outcome>>

\* One step of the schema upgrader, Vi -> Vi+1, or its failure.
EngineUpgradeStep ==
    /\ pc = "engine_upgrade"
    /\ \/ /\ steps_run' = Append(steps_run, tree.version + 1)
          /\ tree' = [tree EXCEPT !.version = tree.version + 1]
          /\ pc' = IF tree.version + 1 < VCurrent THEN "engine_upgrade"
                   ELSE "engine_write"
          /\ raised' = raised
       \/ /\ raised' = Error("UpgradeStepError", "step failed")
          /\ pc' = "except"
          /\ UNCHANGED <<steps_run, tree>>
    /\ UNCHANGED <<argv, fs_before, fs, namespace, engine_calls, call_path,
                   answers, outcome>>

\* The atomic writer persists the tree, or fails leaving the file untouched.
EngineWrite ==
    /\ pc = "engine_write"
    /\ \/ /\ fs' = [fs EXCEPT ![call_path] = File(tree.version, tree.location)]
          /\ pc' = "returning"
          /\ raised' = raised
       \/ /\ raised' = Error("WriteError", "cannot write")
          /\ pc' = "except"
          /\ fs' = fs
    /\ UNCHANGED <<argv, fs_before, namespace, engine_calls, call_path,
                   answers, tree, steps_run, outcome>>

Next ==
    \/ Parse
    \/ Dispatch
    \/ CreateStation
    \/ ReconfigureStation
    \/ EngineCheckPath
    \/ EnginePrompt
    \/ EngineValidate
    \/ EngineUpgradeStep
    \/ EngineWrite
    \/ HandlerReturn
    \/ CreateStationExcept
    \/ ReconfigureStationExcept

Spec == Init /\ [][Next]_vars

(***************************************************************************)
(* The properties checked.                                                 *)
(***************************************************************************)
Done == pc = "done"
\* parse_args accepted the command line.
Parsed == namespace # NoNamespace
\* The path the command line names: --config's value, else the default.
ArgvPath ==
    IF argv.opts["--config"] = NotGiven THEN DefaultPath ELSE argv.opts["--config"]
\* The option as the engine should see it: its string, or None when absent.
AsGiven(o) == IF argv.opts[o] = NotGiven THEN None ELSE Str(argv.opts[o])
CallIndices == 1..Len(engine_calls)

\* C1: whenever a command line of any of the four actions is parsed, the
\* invocation ends having called the engine path of that action: create's
\* entry point for create, reconfigure's for reconfigure, and for upgrade and
\* upgrade-skins an upgrader entry point (neither create's nor reconfigure's).
C1_EveryActionReachesItsEngine ==
    (Done /\ Parsed) =>
        /\ engine_calls # <<>>
        /\ \A i \in CallIndices :
              CASE argv.action = "create" ->
                     engine_calls[i].entry = "weecfg.station_config.create_station"
                [] argv.action = "reconfigure" ->
                     engine_calls[i].entry = "weecfg.station_config.reconfigure_station"
                [] OTHER ->
                     engine_calls[i].entry \notin
                        {"weecfg.station_config.create_station",
                         "weecfg.station_config.reconfigure_station"}

\* C2: for create and reconfigure, registering (register is y) with no station
\* URL supplied on the command line or at a prompt ends in a precondition
\* error with storage untouched; and a command line that gives --register=y
\* together with --station-url never fails for a missing station URL.
C2_RegisterNeedsUrl ==
    (Done /\ Parsed /\ argv.action \in StationActions) =>
        /\ ( /\ \/ argv.opts["--register"] = "y"
                \/ answers.register = Str("y")
             /\ argv.opts["--station-url"] = NotGiven
             /\ answers.station_url = None )
           => (raised.kind = "ViolatedPrecondition" /\ fs = fs_before)
        /\ ( /\ argv.opts["--register"] = "y"
             /\ argv.opts["--station-url"] # NotGiven )
           => raised # Error("ViolatedPrecondition", "no station URL")

\* C3: every error the engine raises during create or reconfigure, of any
\* kind, is caught by the handler and turned into sys.exit with a message
\* (a non-zero status); none leaves the handler uncaught and none ends in a
\* normal return.
C3_EveryErrorConverted ==
    (Done /\ raised # NoError) => outcome = "sys_exit"

\* C4: create on a path that holds a configuration file never changes that
\* file, and the invocation ends with a non-zero status.
C4_CreateOverExistingFails ==
    (argv.action = "create" /\ fs_before[ArgvPath].exists) =>
        /\ fs[ArgvPath] = fs_before[ArgvPath]
        /\ Done => ExitStatus(outcome) # 0
C4_Witness ==
    /\ Done
    /\ argv.action = "create"
    /\ argv.opts["--config"] = OtherPath
    /\ fs_before[OtherPath].exists
    /\ Len(engine_calls) = 1
    /\ raised = Error("ViolatedPrecondition", "config exists")
    /\ outcome = "sys_exit"

\* C5: for each of the four actions, a command line with no option, or with
\* --config=PATH as its only option, is accepted by the parser, and PATH is
\* the path the action operates on.
C5_ConfigAcceptedByAll ==
    (pc # "start" /\ Given(argv.opts) \subseteq {"--config"}) =>
        /\ Parsed
        /\ (Done /\ argv.action \in StationActions) => call_path = ArgvPath

\* C6: in every engine call, each StationSettings field (driver, location,
\* altitude, latitude, longitude, register, station URL, unit system, skin
\* root, sqlite root, html root) arrives as given on the command line, and as
\* None when it was not given.
C6_OverlayIsWhatWasGiven ==
    \A i \in CallIndices :
        \A o \in CommonOptions \ {"--no-prompt"} :
            Param(engine_calls[i], Dest(o)) = AsGiven(o)

\* C7: the no_prompt value the engine receives is true exactly when
\* --no-prompt was given a value denoting true; absent, or given a value
\* denoting false (false, 0, n, the empty string), it is not true.
C7_NoPromptFollowsFlag ==
    \A i \in CallIndices :
        (Param(engine_calls[i], "no_prompt") = Bool(TRUE))
            <=> (argv.opts["--no-prompt"] \in {"true"})

\* C8: the engine only ever receives a unit system among us, metricwx, metric
\* or None and a register value among y, n or None; a command line with any
\* other value for --units or --register leads to no engine call and no
\* change of storage.
C8_ChoicesEnforced ==
    /\ \A i \in CallIndices :
          /\ Param(engine_calls[i], "unit_system") \in
                {None, Str("us"), Str("metricwx"), Str("metric")}
          /\ Param(engine_calls[i], "register") \in {None, Str("y"), Str("n")}
    /\ ( \/ argv.opts["--units"] \notin {NotGiven, "us", "metricwx", "metric"}
         \/ argv.opts["--register"] \notin {NotGiven, "y", "n"} )
       => (engine_calls = <<>> /\ fs = fs_before)
C8_Witness ==
    /\ Done
    /\ argv.action = "create"
    /\ argv.opts["--units"] = "si"
    /\ argv.opts["--register"] = "y"
    /\ outcome = "argparse_error"
    /\ engine_calls = <<>>

\* C9: after an upgrade invocation that ended normally on an existing
\* configuration with stored version Vi, the stored version is the current
\* one and the steps Vi+1 .. VCurrent have run once each, in ascending order.
C9_UpgradeReachesCurrent ==
    (Done /\ argv.action = "upgrade" /\ outcome = "returned"
          /\ fs_before[ArgvPath].exists) =>
        LET vi == fs_before[ArgvPath].version
        IN  /\ fs[ArgvPath].exists
            /\ fs[ArgvPath].version = VCurrent
            /\ steps_run = [i \in 1..(VCurrent - vi) |-> vi + i]

\* C10: a handler calls the engine once and never again: at most one engine
\* call is ever made, it is the entry point of the handler's own action, a
\* handler that has finished has made exactly one; a precondition violation
\* ends the process with a non-zero status, and a normal return of the engine
\* ends it with status zero.
C10_OneEngineCall ==
    /\ Len(engine_calls) <= 1
    /\ \A i \in CallIndices :
          engine_calls[i].entry =
             (IF namespace["func"] = "create_station"
              THEN "weecfg.station_config.create_station"
              ELSE "weecfg.station_config.reconfigure_station")
    /\ (Done /\ "func" \in DOMAIN namespace) =>
          /\ Len(engine_calls) = 1
          /\ raised.kind = "ViolatedPrecondition" =>
                (outcome = "sys_exit" /\ ExitStatus(outcome) # 0)
          /\ raised = NoError =>
                (outcome = "returned" /\ ExitStatus(outcome) = 0)
C10_Witness ==
    /\ Done
    /\ namespace # NoNamespace
    /\ argv.action = "reconfigure"
    /\ Len(engine_calls) = 1
    /\ raised = Error("ViolatedPrecondition", "no station URL")
    /\ outcome = "sys_exit"

====
